---- MODULE Spec2Model ----
(***************************************************************************)
(* Durable workflow orchestration of the Agent-Orchestration repository:   *)
(* the teacher-verification, contract-management and renewal-approval      *)
(* workflow bodies, their approval gates (hook + sleep race), the          *)
(* resume/approve HTTP routes with their token clean-up, and the durable   *)
(* runtime they run on (step log, replay after a crash, hook registry).    *)
(*                                                                         *)
(* Strings are sequences of symbols.  A symbol is one character that the   *)
(* routes treat specially (colon, quote, comma, blank, percent escapes) or *)
(* a run of ordinary characters (a word such as "legal-approval").         *)
(***************************************************************************)
EXTENDS Integers, Sequences, FiniteSets, TLC

(* ------------------------------------------------------------------ *)
(* Bounds of the model                                                 *)
(* ------------------------------------------------------------------ *)
MaxClock == 1
MaxCrashes == 1

(* ------------------------------------------------------------------ *)
(* String helpers: encodeURIComponent, decodeURIComponent, the regex   *)
(* replace of the routes, String.trim, String.includes                 *)
(* ------------------------------------------------------------------ *)
COLON == ":"
DQUOTE == "\""
SQUOTE == "'"
COMMA == ","
BLANK == " "
PERCENT == "%"

\* encodeURIComponent on one symbol: reserved characters become escapes,
\* unreserved ones (letters, digits, - _ . ! ~ * ' ( )) stay.
EncodeSym(c) ==
  CASE c = COLON -> "%3A"
    [] c = DQUOTE -> "%22"
    [] c = COMMA -> "%2C"
    [] c = BLANK -> "%20"
    [] c = PERCENT -> "%25"
    [] OTHER -> c

encodeURIComponent(s) == [i \in 1..Len(s) |-> EncodeSym(s[i])]

\* decodeURIComponent on one symbol: every well-formed escape is decoded.
DecodeSym(c) ==
  CASE c = "%3A" -> COLON
    [] c = "%22" -> DQUOTE
    [] c = "%2C" -> COMMA
    [] c = "%20" -> BLANK
    [] c = "%27" -> SQUOTE
    [] c = "%25" -> PERCENT
    [] c = "%2522" -> "%22"
    [] OTHER -> c

\* A lone percent sign is a malformed escape: decodeURIComponent throws URIError.
Malformed(s) == \E i \in 1..Len(s) : s[i] = PERCENT

decodeURIComponent(s) == [i \in 1..Len(s) |-> DecodeSym(s[i])]

\* try { token = decodeURIComponent(rawToken) } catch { token = rawToken }
TryDecode(s) == IF Malformed(s) THEN s ELSE decodeURIComponent(s)

RECURSIVE StripTrailing(_, _)
\* s.replace(/[set]+$/, ''): drops the longest suffix made of symbols of set.
StripTrailing(s, set) ==
  IF Len(s) > 0 /\ s[Len(s)] \in set
    THEN StripTrailing(SubSeq(s, 1, Len(s) - 1), set)
    ELSE s

RECURSIVE StripLeading(_, _)
StripLeading(s, set) ==
  IF Len(s) > 0 /\ s[1] \in set
    THEN StripLeading(SubSeq(s, 2, Len(s)), set)
    ELSE s

\* String.prototype.trim
Trim(s) == StripLeading(StripTrailing(s, {BLANK}), {BLANK})

\* String.prototype.includes for a word that contains no special character
Includes(s, w) == \E i \in 1..Len(s) : s[i] = w

(* ------------------------------------------------------------------ *)
(* Values                                                              *)
(* ------------------------------------------------------------------ *)
NoVal == [tag |-> "none"]
Void == [tag |-> "void"]

\* Date.now() rendered inside a template literal
TimeSym(t) == IF t = 0 THEN "1700000000000" ELSE IF t = 1 THEN "1700000000001"
              ELSE IF t = 2 THEN "1700000000002" ELSE "1700000000003"

\* Math.random().toString(36).substring(2, 9): lower-case letters and digits only
Suffixes == {"k3j9x0a", "z81mmq2"}

MsrIds == {"msr-1"}
RequesterIds == {"user-7", "clause-validation-approval"}
RequesterRoles == {"requester", "manager"}

TeacherInputs == [wf : {"teacher"}, msrId : MsrIds, hasId : BOOLEAN]
ContractInputs == [wf : {"contract"}, requesterId : RequesterIds, requesterRole : RequesterRoles]
RenewalInputs == [wf : {"renewal"}, brokerEmail : {"broker@example.com"}]
\* the offer comes from an e-mail, from the shop, or only a partner URL is given;
\* USE_HTTP_PROBES_ONLY is set or not
DealInputs == [wf : {"deal"}, source : {"email", "shop", "none"}, probesOnly : BOOLEAN]
Inputs == TeacherInputs \cup ContractInputs \cup RenewalInputs \cup DealInputs
\* a teacher verification called as a plain function by its route
DirectInputs == [wf : {"teacher-direct"}, msrId : MsrIds, hasId : BOOLEAN]
\* the organisation's domain
OrgInputs == [wf : {"org"}, domain : {"acme.com"}]

(* ------------------------------------------------------------------ *)
(* State                                                               *)
(* ------------------------------------------------------------------ *)
VARIABLES
  input,     \* the argument the run was started with
  status,    \* run registry: pending, running, suspended, completed, failed
  result,    \* the value the workflow function returned, or the error it threw
  pc,        \* volatile: the statement of the workflow body that runs next
  loc,       \* volatile: the local variables of the workflow body
  cursor,    \* volatile: how many log entries this execution of the body consumed
  pending,   \* volatile: a step result produced but not yet committed
  log,       \* durable: the committed step results, in program order
  attempt,   \* durable: attempts of the step that is running which threw
  thrown,    \* durable: what the last attempt of the running step threw, if anything
  hooks,     \* durable: the hook registry
  clock,     \* wall-clock time read by Date.now()
  sent,      \* outside world: the tokens that approval e-mails carried
  effects,   \* outside world, per step call: 0 = no result obtained yet, 1 = the body
             \* obtained its result, 2 = its function ran again after that
  crashes,   \* how often the hosting process was restarted
  calls,     \* HTTP requests to the resume routes and their responses
  tasks,     \* the step calls of a Promise.all that are in flight, per worker
  peer,      \* a second run of the same workflow, started concurrently
  reply      \* the response of the route that started the run

vars == <<input, status, result, pc, loc, cursor, pending, log, attempt, thrown, hooks,
          clock, sent, effects, crashes, calls, tasks, peer, reply>>

(* ------------------------------------------------------------------ *)
(* Tokens built by the workflow bodies (template literals)             *)
(* ------------------------------------------------------------------ *)
\* `teacher-verification:${input.msrId}:${Date.now()}`
VerificationId(msrId, now) == <<"teacher-verification", COLON, msrId, COLON, TimeSym(now)>>

\* `contract:${input.requesterId}:${randomSuffix}`
ContractId(requesterId, randomSuffix) == <<"contract", COLON, requesterId, COLON, randomSuffix>>

\* `${id}:approval`, `${id}:clause-validation-approval`, `${id}:manager-review`, ...
TokenOf(id, role) == id \o <<COLON, role>>

(* ------------------------------------------------------------------ *)
(* The workflow bodies as programs: one operation per statement        *)
(* ------------------------------------------------------------------ *)
StepOp(fn) == [kind |-> "step", fn |-> fn, gate |-> "none", hook |-> "none", comment |-> "none"]
HookOp(gate, hook) == [kind |-> "hook", fn |-> "none", gate |-> gate, hook |-> hook, comment |-> "none"]
\* Promise.race([hook, sleep(...) then {approved: false, comment}])
RaceOp(gate, comment) == [kind |-> "race", fn |-> "none", gate |-> gate, hook |-> "none", comment |-> comment]
\* await webhook: no sleep is raced against it
AwaitOp(gate) == [kind |-> "await", fn |-> "none", gate |-> gate, hook |-> "none", comment |-> "none"]
PlainOp(kind) == [kind |-> kind, fn |-> "none", gate |-> "none", hook |-> "none", comment |-> "none"]

teacherVerification(p) ==
  CASE p = "start" -> PlainOp("ids")
    [] p = "copyMemberIdentifier" -> StepOp("copyMemberIdentifier")
    [] p = "queryStateRegistry" -> StepOp("queryStateRegistry")
    [] p = "validateMemberDetails" -> StepOp("validateMemberDetails")
    [] p = "approval.create" -> HookOp("approval", "teacherVerificationApprovalHook")
    [] p = "sendApprovalRequest" -> StepOp("sendApprovalRequest")
    [] p = "approval.race" -> RaceOp("approval", "Approval timeout")
    [] p = "return.notApproved" -> PlainOp("return")
    [] p = "return.approved" -> PlainOp("return")
    [] OTHER -> PlainOp("end")

\* a body that would query the registry before it copies the identifier
teacherVerificationNextSwapped(p, l) ==
  CASE p = "start" -> "queryStateRegistry"
    [] p = "queryStateRegistry" -> "copyMemberIdentifier"
    [] p = "copyMemberIdentifier" -> "validateMemberDetails"
    [] p = "validateMemberDetails" -> "approval.create"
    [] p = "approval.create" -> "sendApprovalRequest"
    [] p = "sendApprovalRequest" -> "approval.race"
    [] p = "approval.race" ->
         IF ~l["approval"].approved THEN "return.notApproved" ELSE "return.approved"
    [] OTHER -> "end"

\* a body that would not look at the decision
teacherVerificationNextApproved(p, l) ==
  CASE p = "start" -> "copyMemberIdentifier"
    [] p = "copyMemberIdentifier" -> "queryStateRegistry"
    [] p = "queryStateRegistry" -> "validateMemberDetails"
    [] p = "validateMemberDetails" -> "approval.create"
    [] p = "approval.create" -> "sendApprovalRequest"
    [] p = "sendApprovalRequest" -> "approval.race"
    [] p = "approval.race" -> "return.approved"
    [] OTHER -> "end"

teacherVerificationNext(p, l) ==
  CASE p = "start" -> "copyMemberIdentifier"
    [] p = "copyMemberIdentifier" -> "queryStateRegistry"
    [] p = "queryStateRegistry" -> "validateMemberDetails"
    [] p = "validateMemberDetails" -> "approval.create"
    [] p = "approval.create" -> "sendApprovalRequest"
    [] p = "sendApprovalRequest" -> "approval.race"
    [] p = "approval.race" ->
         IF ~l["approval"].approved THEN "return.notApproved" ELSE "return.approved"
    [] OTHER -> "end"

contractManagement(p) ==
  CASE p = "start" -> PlainOp("ids")
    [] p = "checkPolicyCompliance" -> StepOp("checkPolicyCompliance")
    [] p = "return.policy" -> PlainOp("return")
    [] p = "draftContract" -> StepOp("draftContract")
    [] p = "extractStructuredData" -> StepOp("extractStructuredData")
    [] p = "validateClauses" -> StepOp("validateClauses")
    [] p = "throw.clauseValidationUndefined" -> PlainOp("throw")
    [] p = "clause-validation-approval.create" ->
         HookOp("clause-validation-approval", "clauseValidationApprovalHook")
    [] p = "sendApprovalRequest.clause-validation" -> StepOp("sendApprovalRequest")
    [] p = "clause-validation-approval.race" ->
         RaceOp("clause-validation-approval", "Clause validation approval timeout")
    [] p = "throw.clauseValidationNotApproved" -> PlainOp("throw")
    [] p = "detectRisks" -> StepOp("detectRisks")
    [] p = "throw.risksUndefined" -> PlainOp("throw")
    [] p = "manager-review.create" -> HookOp("manager-review", "contractManagerReviewHook")
    [] p = "sendApprovalRequest.contract_manager" -> StepOp("sendApprovalRequest")
    [] p = "manager-review.race" -> RaceOp("manager-review", "Manager review timeout")
    [] p = "generateRedline" -> StepOp("generateRedline")
    [] p = "return.managerNotApproved" -> PlainOp("return")
    [] p = "legal-approval.create" -> HookOp("legal-approval", "contractApprovalHook")
    [] p = "sendApprovalRequest.legal" -> StepOp("sendApprovalRequest")
    [] p = "legal-approval.race" -> RaceOp("legal-approval", "Legal approval timeout")
    [] p = "return.legalDenied" -> PlainOp("return")
    [] p = "sendApprovalRequest.counterparty" -> StepOp("sendApprovalRequest")
    [] p = "archiveContract" -> StepOp("archiveContract")
    [] p = "return.complete" -> PlainOp("return")
    [] OTHER -> PlainOp("end")

contractManagementNext(p, l, in) ==
  CASE p = "start" -> "checkPolicyCompliance"
    [] p = "checkPolicyCompliance" ->
         IF ~l[p].allowed THEN "return.policy" ELSE "draftContract"
    [] p = "draftContract" -> "extractStructuredData"
    [] p = "extractStructuredData" -> "validateClauses"
    [] p = "validateClauses" ->
         IF l[p].tag = "undefined" THEN "throw.clauseValidationUndefined"
         ELSE IF l[p].needsApproval THEN "clause-validation-approval.create"
         ELSE "detectRisks"
    [] p = "clause-validation-approval.create" -> "sendApprovalRequest.clause-validation"
    [] p = "sendApprovalRequest.clause-validation" -> "clause-validation-approval.race"
    [] p = "clause-validation-approval.race" ->
         IF ~l["clause-validation-approval"].approved
           THEN "throw.clauseValidationNotApproved" ELSE "detectRisks"
    [] p = "detectRisks" ->
         IF l[p].tag = "undefined" THEN "throw.risksUndefined"
         ELSE IF in.requesterRole = "requester" THEN "manager-review.create"
         ELSE "legal-approval.create"
    [] p = "manager-review.create" -> "sendApprovalRequest.contract_manager"
    [] p = "sendApprovalRequest.contract_manager" -> "manager-review.race"
    [] p = "manager-review.race" ->
         IF l["manager-review"].approved = FALSE
           THEN (IF l["manager-review"].edits THEN "generateRedline"
                 ELSE "return.managerNotApproved")
           ELSE "legal-approval.create"
    [] p = "generateRedline" -> "return.managerNotApproved"
    [] p = "legal-approval.create" -> "sendApprovalRequest.legal"
    [] p = "sendApprovalRequest.legal" -> "legal-approval.race"
    [] p = "legal-approval.race" ->
         IF l["legal-approval"].approved = FALSE THEN "return.legalDenied"
         ELSE "sendApprovalRequest.counterparty"
    [] p = "sendApprovalRequest.counterparty" -> "archiveContract"
    [] p = "archiveContract" -> "return.complete"
    [] OTHER -> "end"

waitForBrokerApproval(p) ==
  CASE p = "start" -> HookOp("webhook", "webhook")
    [] p = "sendApprovalRequest.broker" -> StepOp("sendApprovalRequest")
    [] p = "webhook.await" -> AwaitOp("webhook")
    [] p = "return.data" -> PlainOp("return")
    [] OTHER -> PlainOp("end")

waitForBrokerApprovalNext(p) ==
  CASE p = "start" -> "sendApprovalRequest.broker"
    [] p = "sendApprovalRequest.broker" -> "webhook.await"
    [] p = "webhook.await" -> "return.data"
    [] OTHER -> "end"

\* the value a caught rejection of a step leaves in the body
Rejected(kind) == [tag |-> "rejected", kind |-> kind]

dealVerification(p) ==
  CASE p = "start" -> PlainOp("ids")
    [] p = "fetchOfferDetails" -> StepOp("fetchOfferDetails")
    [] p = "verifyOfferWithHttpProbe" -> StepOp("verifyOfferWithHttpProbe")
    [] p = "verifyOfferWithPlaywright" -> StepOp("verifyOfferWithPlaywright")
    [] p = "verifyOfferWithHttpProbe.fallback" -> StepOp("verifyOfferWithHttpProbe")
    [] p = "return.verification" -> PlainOp("return")
    [] OTHER -> PlainOp("end")

dealVerificationNext(p, l, in) ==
  CASE p = "start" -> "fetchOfferDetails"
    [] p = "fetchOfferDetails" ->
         IF in.probesOnly THEN "verifyOfferWithHttpProbe" ELSE "verifyOfferWithPlaywright"
    [] p = "verifyOfferWithPlaywright" ->
         IF l[p].tag = "rejected" THEN "verifyOfferWithHttpProbe.fallback"
         ELSE "return.verification"
    [] p = "verifyOfferWithHttpProbe" -> "return.verification"
    [] p = "verifyOfferWithHttpProbe.fallback" -> "return.verification"
    [] OTHER -> "end"

\* const [legalResult, sectorResult, trustResult] = await Promise.all([...]);
\* const consolidated = await consolidateResults({...}); return {...}
orgValidation(p) ==
  CASE p = "start" -> PlainOp("fanout")
    [] p = "Promise.all" -> PlainOp("join")
    [] p = "consolidateResults" -> StepOp("consolidateResults")
    [] p = "return.org" -> PlainOp("return")
    [] OTHER -> PlainOp("end")

orgValidationNext(p) ==
  CASE p = "start" -> "Promise.all"
    [] p = "Promise.all" -> "consolidateResults"
    [] p = "consolidateResults" -> "return.org"
    [] OTHER -> "end"

\* the teacher verification without workflow directives: three awaited calls of
\* plain functions, no approval
teacherVerificationDirect(p) ==
  CASE p = "start" -> PlainOp("ids")
    [] p = "direct.copyMemberIdentifier" -> StepOp("operations.copyMemberIdentifier")
    [] p = "direct.queryStateRegistry" -> StepOp("operations.queryStateRegistry")
    [] p = "direct.validateMemberDetails" -> StepOp("operations.validateMemberDetails")
    [] p = "return.direct" -> PlainOp("return")
    [] OTHER -> PlainOp("end")

teacherVerificationDirectNext(p) ==
  CASE p = "start" -> "direct.copyMemberIdentifier"
    [] p = "direct.copyMemberIdentifier" -> "direct.queryStateRegistry"
    [] p = "direct.queryStateRegistry" -> "direct.validateMemberDetails"
    [] p = "direct.validateMemberDetails" -> "return.direct"
    [] OTHER -> "end"

\* a body without the try/catch
CaughtNowhere(in, p) == FALSE

\* try { await step } catch (error) { ... }: the step calls whose rejection the
\* body catches
Caught(in, p) == in.wf = "deal" /\ p = "verifyOfferWithPlaywright"

Op(in, p) ==
  IF in.wf = "teacher" THEN teacherVerification(p)
  ELSE IF in.wf = "contract" THEN contractManagement(p)
  ELSE IF in.wf = "deal" THEN dealVerification(p)
  ELSE IF in.wf = "org" THEN orgValidation(p)
  ELSE IF in.wf = "teacher-direct" THEN teacherVerificationDirect(p)
  ELSE waitForBrokerApproval(p)

\* a body that drafts the contract whatever the policy check answered
NextPcPastPolicy(in, p, l) ==
  IF in.wf = "contract" /\ p = "checkPolicyCompliance" THEN "draftContract"
  ELSE IF in.wf = "teacher" THEN teacherVerificationNext(p, l)
  ELSE IF in.wf = "contract" THEN contractManagementNext(p, l, in)
  ELSE IF in.wf = "deal" THEN dealVerificationNext(p, l, in)
  ELSE IF in.wf = "org" THEN orgValidationNext(p)
  ELSE IF in.wf = "teacher-direct" THEN teacherVerificationDirectNext(p)
  ELSE waitForBrokerApprovalNext(p)

NextPc(in, p, l) ==
  IF in.wf = "teacher" THEN teacherVerificationNext(p, l)
  ELSE IF in.wf = "contract" THEN contractManagementNext(p, l, in)
  ELSE IF in.wf = "deal" THEN dealVerificationNext(p, l, in)
  ELSE IF in.wf = "org" THEN orgValidationNext(p)
  ELSE IF in.wf = "teacher-direct" THEN teacherVerificationDirectNext(p)
  ELSE waitForBrokerApprovalNext(p)

Gates == {"approval", "clause-validation-approval", "manager-review", "legal-approval", "webhook"}
StepSites == {"copyMemberIdentifier", "queryStateRegistry", "validateMemberDetails",
              "sendApprovalRequest", "checkPolicyCompliance", "draftContract",
              "extractStructuredData", "validateClauses",
              "sendApprovalRequest.clause-validation", "detectRisks",
              "sendApprovalRequest.contract_manager", "generateRedline",
              "sendApprovalRequest.legal", "sendApprovalRequest.counterparty",
              "archiveContract", "sendApprovalRequest.broker",
              "fetchOfferDetails", "verifyOfferWithPlaywright",
              "verifyOfferWithHttpProbe", "verifyOfferWithHttpProbe.fallback",
              "consolidateResults", "direct.copyMemberIdentifier",
              "direct.queryStateRegistry", "direct.validateMemberDetails"}
LocNames == {"id", "legalResult", "sectorResult", "trustResult"} \cup Gates \cup StepSites

(* ------------------------------------------------------------------ *)
(* Step functions ("use step"): what one invocation can produce        *)
(* ------------------------------------------------------------------ *)
Ok(v) == [kind |-> "ok", val |-> v]
Retryable == [kind |-> "retryable", val |-> NoVal]
Fatal == [kind |-> "fatal", val |-> NoVal]

RegistryResults ==
  { [tag |-> "registry", found |-> FALSE, employmentStatus |-> "unknown"],
    [tag |-> "registry", found |-> TRUE, employmentStatus |-> "active"],
    [tag |-> "registry", found |-> TRUE, employmentStatus |-> "retired"] }

\* throws FatalError unless memberId or (memberName and dateOfBirth) is given
copyMemberIdentifier(in) ==
  IF ~in.hasId THEN {Fatal} ELSE {Ok([tag |-> "identifier"])}

\* fetch may reject (retried); a non-ok response is a FatalError
queryStateRegistry == {Retryable, Fatal} \cup {Ok(r) : r \in RegistryResults}

\* no name and no date of birth are given here, so both matches default to true
validateMemberDetails(registry) ==
  IF ~registry.found
    THEN {Ok([tag |-> "validation", verified |-> FALSE, found |-> FALSE])}
    ELSE {Ok([tag |-> "validation",
              verified |-> (registry.employmentStatus \in {"active", "employed"}),
              found |-> TRUE])}

\* builds the approval URL and posts the e-mail; fetch may reject
sendApprovalRequest == {Retryable, Ok(Void)}

\* steps of the contract workflow: opaque collaborators
checkPolicyCompliance == {Retryable, Fatal} \cup {Ok([tag |-> "policy", allowed |-> a]) : a \in BOOLEAN}
OpaqueStep(tag) == {Retryable, Fatal, Ok([tag |-> tag])}
validateClauses ==
  {Retryable, Fatal, Ok([tag |-> "undefined"])}
    \cup {Ok([tag |-> "clauses", needsApproval |-> n]) : n \in BOOLEAN}
detectRisks == {Retryable, Fatal, Ok([tag |-> "undefined"]), Ok([tag |-> "risks"])}

\* e-mail content is parsed locally; the shop is asked over fetch (which may
\* reject, and a non-ok response is a FatalError); without either a FatalError
fetchOfferDetails(in) ==
  CASE in.source = "email" -> {Ok([tag |-> "offer"])}
    [] in.source = "shop" -> {Retryable, Fatal, Ok([tag |-> "offer"])}
    [] OTHER -> {Fatal}

\* the function body cannot throw, but its execution as a step can fail (the
\* body's catch expects "Playwright unavailable"); otherwise the offer is verified
\* or not
verifyOfferWithPlaywright ==
  {Retryable} \cup {Ok([tag |-> "verification", method |-> "playwright", verified |-> v]) : v \in BOOLEAN}

\* fetch of the partner page may reject
verifyOfferWithHttpProbe ==
  {Retryable} \cup {Ok([tag |-> "verification", method |-> "http_probe", verified |-> v]) : v \in BOOLEAN}

\* the workers of the organisation check: each wraps every error of its agent in a
\* FatalError, so a worker either returns its finding or fails for good
LegalNames == {<<"acme", BLANK, "corporation">>, <<>>}
SectorNames == {<<"acme">>, <<"apex", BLANK, "holdings">>, <<>>}
\* the tool result carries legalName; a result parsed from the model's text may
\* carry the name under `name` instead
runLegalScout ==
  {Fatal} \cup {Ok([tag |-> "legal", legalName |-> n, jurisdiction |-> "Delaware"]) : n \in LegalNames}
          \cup {Ok([tag |-> "legal", name |-> <<"acme", BLANK, "corporation">>,
                    jurisdiction |-> "Delaware"])}
runSectorAnalyst ==
  {Fatal} \cup {Ok([tag |-> "sector", sector |-> "Software", organizationName |-> n]) : n \in SectorNames}
\* confidence in tenths
TrustScores == {2, 3, 9}
runTrustOfficer == {Fatal} \cup {Ok([tag |-> "trust", confidence |-> c]) : c \in TrustScores}

WorkerOutcomes(w) ==
  CASE w = "legal" -> runLegalScout
    [] w = "sector" -> runSectorAnalyst
    [] OTHER -> runTrustOfficer

\* a.includes(b), for strings as sequences of symbols
IsInfix(a, b) == \E i \in 0..Len(a) : i + Len(b) <= Len(a) /\ SubSeq(a, i + 1, i + Len(b)) = b

\* x?.f || d, with the empty string (and an absent field) falsy
Field(r, f, d) == IF f \in DOMAIN r /\ r[f] # <<>> THEN r[f] ELSE d

MinUncapped(a, b) == b
Min(a, b) == IF a < b THEN a ELSE b
Max(a, b) == IF a > b THEN a ELSE b

\* cross-checks the three findings; names are compared after toLowerCase().trim()
\* (the names here are lower-case already)
consolidateResults(l) ==
  LET legalResult == l["legalResult"]
      sectorResult == l["sectorResult"]
      trustResult == l["trustResult"]
      legalName == Field(legalResult, "legalName", Field(legalResult, "name", <<"unknown">>))
      trustScore == IF "confidence" \in DOMAIN trustResult THEN trustResult.confidence ELSE 0
      legalNameNormalized == Trim(legalName)
      sectorNameNormalized == Trim(Field(sectorResult, "organizationName", <<>>))
      confidence ==
        IF Field(legalResult, "legalName", <<>>) # <<>> /\ "sector" \in DOMAIN sectorResult
          THEN IF \/ legalNameNormalized = sectorNameNormalized
                  \/ IsInfix(legalNameNormalized, sectorNameNormalized)
                  \/ IsInfix(sectorNameNormalized, legalNameNormalized)
                 THEN Min(10, trustScore + 2)
                 ELSE Max(0, trustScore - 3)
          ELSE trustScore
  IN {Ok([tag |-> "consolidated", validated |-> confidence > 5, legalName |-> legalName,
          confidence |-> confidence,
          sources |-> << [type |-> "legal", data |-> legalResult],
                         [type |-> "sector", data |-> sectorResult],
                         [type |-> "trust", data |-> trustResult] >>])}

StepOutcomes(in, site, l) ==
  CASE site = "copyMemberIdentifier" -> copyMemberIdentifier(in)
    [] site = "fetchOfferDetails" -> fetchOfferDetails(in)
    [] site = "verifyOfferWithPlaywright" -> verifyOfferWithPlaywright
    [] site = "verifyOfferWithHttpProbe" -> verifyOfferWithHttpProbe
    [] site = "verifyOfferWithHttpProbe.fallback" -> verifyOfferWithHttpProbe
    [] site = "consolidateResults" -> consolidateResults(l)
    [] site = "direct.copyMemberIdentifier" -> copyMemberIdentifier(in)
    [] site = "direct.queryStateRegistry" -> queryStateRegistry
    [] site = "direct.validateMemberDetails" ->
         validateMemberDetails(l["direct.queryStateRegistry"])
    [] site = "queryStateRegistry" -> queryStateRegistry
    [] site = "validateMemberDetails" -> validateMemberDetails(l["queryStateRegistry"])
    [] site = "checkPolicyCompliance" -> checkPolicyCompliance
    [] site = "draftContract" -> OpaqueStep("draft")
    [] site = "extractStructuredData" -> OpaqueStep("structuredData")
    [] site = "validateClauses" -> validateClauses
    [] site = "detectRisks" -> detectRisks
    [] site = "generateRedline" -> OpaqueStep("redline")
    [] site = "archiveContract" -> OpaqueStep("archive")
    [] OTHER -> sendApprovalRequest

\* sendApprovalRequest as it would be without its "use step" directive
UseStepExceptNotification(fn) ==
  fn \in {"copyMemberIdentifier", "queryStateRegistry", "validateMemberDetails",
          "checkPolicyCompliance", "draftContract",
          "extractStructuredData", "validateClauses", "detectRisks", "generateRedline",
          "archiveContract"}

\* the functions that carry the "use step" directive
UseStep(fn) ==
  fn \in {"copyMemberIdentifier", "queryStateRegistry", "validateMemberDetails",
          "sendApprovalRequest", "checkPolicyCompliance", "draftContract",
          "extractStructuredData", "validateClauses", "detectRisks", "generateRedline",
          "archiveContract", "fetchOfferDetails", "verifyOfferWithPlaywright",
          "verifyOfferWithHttpProbe", "consolidateResults"}

\* fn.maxRetries
DefaultMaxRetries == 3
copyMemberIdentifierMaxRetries == 1
queryStateRegistryMaxRetries == 3
validateMemberDetailsMaxRetries == 1
fetchOfferDetailsMaxRetries == 3
verifyOfferWithPlaywrightMaxRetries == 2
verifyOfferWithHttpProbeMaxRetries == 3
runLegalScoutMaxRetries == 3
runSectorAnalystMaxRetries == 3
runTrustOfficerMaxRetries == 3
consolidateResultsMaxRetries == 2
MaxRetries(site) ==
  CASE site = "copyMemberIdentifier" -> copyMemberIdentifierMaxRetries
    [] site = "fetchOfferDetails" -> fetchOfferDetailsMaxRetries
    [] site = "verifyOfferWithPlaywright" -> verifyOfferWithPlaywrightMaxRetries
    [] site = "verifyOfferWithHttpProbe" -> verifyOfferWithHttpProbeMaxRetries
    [] site = "verifyOfferWithHttpProbe.fallback" -> verifyOfferWithHttpProbeMaxRetries
    [] site = "legal" -> runLegalScoutMaxRetries
    [] site = "sector" -> runSectorAnalystMaxRetries
    [] site = "trust" -> runTrustOfficerMaxRetries
    [] site = "consolidateResults" -> consolidateResultsMaxRetries
    [] site = "queryStateRegistry" -> queryStateRegistryMaxRetries
    [] site = "validateMemberDetails" -> validateMemberDetailsMaxRetries
    [] OTHER -> DefaultMaxRetries

\* The token a call site of sendApprovalRequest embeds in the approval URL
SentToken(site, l) ==
  CASE site = "sendApprovalRequest" -> TokenOf(l["id"].seq, "approval")
    [] site = "sendApprovalRequest.clause-validation" -> TokenOf(l["id"].seq, "clause-validation-approval")
    [] site = "sendApprovalRequest.contract_manager" -> TokenOf(l["id"].seq, "manager-review")
    [] site = "sendApprovalRequest.legal" -> TokenOf(l["id"].seq, "legal-approval")
    [] site = "sendApprovalRequest.counterparty" -> TokenOf(l["id"].seq, "counterparty")
    [] OTHER -> l["webhook"].seq

IsNotification(in, site) == Op(in, site).fn = "sendApprovalRequest"

(* ------------------------------------------------------------------ *)
(* Durable runtime: run registry, step log, hook registry              *)
(* ------------------------------------------------------------------ *)
Callers == {"c1", "c2"}
IdleCall == [stage |-> "idle"]
Workers == {"legal", "sector", "trust"}
NoTasks == [w \in Workers |-> [state |-> "idle", attempt |-> 0, val |-> NoVal, fault |-> "none"]]
NoPeer == [stage |-> "none"]
EmptyLoc == [n \in LocNames |-> NoVal]
Terminal == {"completed", "failed"}
Live == status \in {"running", "suspended"}

HookAt(gate) == {h \in hooks : h.gate = gate}
TheHook(gate) == CHOOSE h \in hooks : h.gate = gate

\* a timeout arm that would let the gate pass
TimeoutDecisionApproved(comment) ==
  [tag |-> "decision", approved |-> TRUE, comment |-> comment, by |-> "none", edits |-> FALSE]

\* the decision the timeout arm of a race returns
TimeoutDecision(comment) ==
  [tag |-> "decision", approved |-> FALSE, comment |-> comment, by |-> "none", edits |-> FALSE]

\* a race that takes the timeout arm whatever the hook holds
DecisionOfSleep(h, comment) == TimeoutDecision(comment)

\* the value the workflow body gets from a settled gate
Decision(h, comment) ==
  IF h.state = "resolved" THEN h.payload ELSE TimeoutDecision(comment)

InitOf(ins) ==
  /\ input \in ins
  /\ status = "pending"
  /\ result = NoVal
  /\ pc = "start"
  /\ loc = EmptyLoc
  /\ cursor = 0
  /\ pending = NoVal
  /\ log = <<>>
  /\ attempt = 0
  /\ thrown = "none"
  /\ hooks = {}
  /\ clock = 0
  /\ sent = {}
  /\ effects = [s \in StepSites |-> 0]
  /\ crashes = 0
  /\ calls = [c \in Callers |-> IdleCall]
  /\ tasks = NoTasks
  /\ peer = NoPeer
  /\ reply = NoVal

Init == InitOf(Inputs)

\* start(workflowFn, args): the run is registered and begins to execute
StartRun ==
  /\ status = "pending"
  /\ status' = "running"
  /\ UNCHANGED <<input, result, pc, loc, cursor, pending, log, attempt, thrown, hooks,
                 clock, sent, effects, crashes, calls,
                 tasks, peer, reply>>

\* the identifier the body derives first, from Date.now() read at time t or from
\* Math.random() (t is ignored)
NewIds(in, t) ==
  IF in.wf \in {"teacher", "teacher-direct"} THEN {VerificationId(in.msrId, t)}
  ELSE IF in.wf = "deal" THEN {<<TimeSym(t)>>}
  ELSE {ContractId(in.requesterId, x) : x \in Suffixes}

\* const verificationId = ... / const contractId = ...: evaluated by the body itself,
\* on every execution of the body; the clock may have advanced since it was last read
ComputeIds ==
  /\ status = "running"
  /\ Op(input, pc).kind = "ids"
  /\ \E t \in clock..MaxClock :
       /\ clock' = t
       /\ \E id \in NewIds(input, t) :
            /\ loc' = [loc EXCEPT !["id"] = [tag |-> "id", seq |-> id]]
            /\ pc' = NextPc(input, pc, loc')
  /\ UNCHANGED <<input, status, result, cursor, pending, log, attempt, thrown, hooks,
                 sent, effects, crashes, calls,
                 tasks, peer, reply>>

\* a step call whose result is already in the log: the result is handed to the body
\* and the step function does not run
StepReturn ==
  /\ status = "running"
  /\ Op(input, pc).kind = "step"
  /\ UseStep(Op(input, pc).fn)
  /\ cursor < Len(log)
  /\ loc' = [loc EXCEPT ![pc] = log[cursor + 1].val]
  /\ cursor' = cursor + 1
  /\ pc' = NextPc(input, pc, loc')
  /\ UNCHANGED <<input, status, result, pending, log, attempt, thrown, hooks,
                 clock, sent, effects, crashes, calls,
                 tasks, peer, reply>>

\* a budget that would allow one attempt more
ExhaustedLate(n, site) == n > MaxRetries(site)

\* all attempts of the retry budget are used up
Exhausted(n, site) == n >= MaxRetries(site)

\* an executor that would treat a FatalError like any other error
StopsWhenExhausted(o, n, site) == o.kind # "ok" /\ Exhausted(n, site)

\* the executor gives up after attempt n threw o: a FatalError at once, any other
\* error when the budget is used up
Stops(o, n, site) == o.kind = "fatal" \/ (o.kind = "retryable" /\ Exhausted(n, site))

\* a step call past the end of the log: the step function runs once more (one
\* attempt).  A function without the "use step" directive is ordinary code of the
\* body: it runs on every execution of the body and nothing is logged.  When the
\* executor gives up, the run fails, unless the body catches the rejection: then
\* the rejection is recorded in the log and handed to the body like a result.
StepInvokeWith(kinds) ==
  /\ status = "running"
  /\ Op(input, pc).kind = "step"
  /\ UseStep(Op(input, pc).fn) => cursor = Len(log)
  /\ pending = NoVal
  /\ \E o \in {x \in StepOutcomes(input, pc, loc) : x.kind \in kinds} :
       LET step == UseStep(Op(input, pc).fn)
           fails == IF step THEN Stops(o, attempt + 1, pc) ELSE o.kind # "ok"
       IN
       /\ attempt' = IF o.kind = "ok" THEN (IF step THEN attempt ELSE 0)
                      ELSE IF fails /\ Caught(input, pc) THEN 0 ELSE attempt + 1
       /\ thrown' = IF o.kind = "ok" \/ (fails /\ Caught(input, pc)) THEN "none" ELSE o.kind
       /\ log' = IF fails /\ Caught(input, pc)
                   THEN Append(log, [site |-> pc, val |-> Rejected(o.kind)]) ELSE log
       /\ sent' = IF o.kind = "ok" /\ IsNotification(input, pc)
                    THEN sent \cup {SentToken(pc, loc)} ELSE sent
       /\ IF o.kind = "ok" /\ ~step
            THEN /\ loc' = [loc EXCEPT ![pc] = o.val]
                 /\ pc' = NextPc(input, pc, loc')
                 /\ pending' = NoVal
                 /\ effects' = [effects EXCEPT ![pc] = IF @ = 0 THEN 1 ELSE 2]
            ELSE /\ pending' = IF o.kind = "ok" THEN [site |-> pc, val |-> o.val] ELSE NoVal
                 /\ effects' = [effects EXCEPT ![pc] = IF @ = 0 THEN 0 ELSE 2]
                 /\ UNCHANGED <<loc, pc>>
       /\ IF fails /\ ~Caught(input, pc)
            THEN /\ status' = "failed"
                 /\ result' = [tag |-> "error", error |-> pc]
            ELSE UNCHANGED <<status, result>>
  /\ UNCHANGED <<input, cursor, hooks, clock, crashes, calls,
                 tasks, peer, reply>>

StepInvoke == StepInvokeWith({"ok", "retryable", "fatal"})

\* the result of the step is appended to the checkpoint; only then does the body
\* continue with it
StepCommit ==
  /\ status = "running"
  /\ pending # NoVal
  /\ log' = Append(log, pending)
  /\ pending' = NoVal
  /\ attempt' = 0
  /\ thrown' = "none"
  /\ effects' = [effects EXCEPT ![pending.site] = IF @ = 0 THEN 1 ELSE @]
  /\ loc' = [loc EXCEPT ![pc] = log'[cursor + 1].val]
  /\ cursor' = cursor + 1
  /\ pc' = NextPc(input, pc, loc')
  /\ UNCHANGED <<input, status, result, hooks, clock, sent, crashes, calls,
                 tasks, peer, reply>>

\* the token of a hook the body creates at a gate
GateTokens(in, gate, l) ==
  IF in.wf = "renewal" THEN {<<"webhook", x>> : x \in Suffixes}
  ELSE {TokenOf(l["id"].seq, gate)}

\* hook.create({ token }) / createWebhook(): registered once per suspension point;
\* a replayed body gets the hook that was registered
HookCreate ==
  /\ status = "running"
  /\ Op(input, pc).kind = "hook"
  /\ LET gate == Op(input, pc).gate IN
       /\ IF HookAt(gate) = {}
            THEN \E t \in GateTokens(input, gate, loc) :
                   /\ hooks' = hooks \cup {[token |-> t, hook |-> Op(input, pc).hook,
                                            gate |-> gate, state |-> "pending",
                                            payload |-> NoVal, armed |-> FALSE]}
                   /\ loc' = [loc EXCEPT ![gate] = [tag |-> "hook", seq |-> t]]
            ELSE /\ hooks' = hooks
                 /\ loc' = [loc EXCEPT ![gate] = [tag |-> "hook", seq |-> TheHook(gate).token]]
       /\ pc' = NextPc(input, pc, loc')
  /\ UNCHANGED <<input, status, result, cursor, pending, log, attempt, thrown,
                 clock, sent, effects, crashes, calls,
                 tasks, peer, reply>>

\* await Promise.race([hook, sleep(timeout)]): the sleep is armed and the run suspends
RaceEnter ==
  /\ status = "running"
  /\ Op(input, pc).kind = "race"
  /\ LET h == TheHook(Op(input, pc).gate) IN
       /\ h.state = "pending"
       /\ hooks' = (hooks \ {h}) \cup {[h EXCEPT !.armed = TRUE]}
  /\ status' = "suspended"
  /\ UNCHANGED <<input, result, pc, loc, cursor, pending, log, attempt, thrown,
                 clock, sent, effects, crashes, calls,
                 tasks, peer, reply>>

\* await webhook: the run suspends, nothing is raced against the webhook
AwaitEnter ==
  /\ status = "running"
  /\ Op(input, pc).kind = "await"
  /\ TheHook(Op(input, pc).gate).state = "pending"
  /\ status' = "suspended"
  /\ UNCHANGED <<input, result, pc, loc, cursor, pending, log, attempt, thrown, hooks,
                 clock, sent, effects, crashes, calls,
                 tasks, peer, reply>>

\* the race (or the await) settles: the body continues with the decision
GateSettle ==
  /\ Live
  /\ Op(input, pc).kind \in {"race", "await"}
  /\ LET h == TheHook(Op(input, pc).gate) IN
       /\ h.state # "pending"
       /\ loc' = [loc EXCEPT ![h.gate] = Decision(h, Op(input, pc).comment)]
  /\ pc' = NextPc(input, pc, loc')
  /\ status' = "running"
  /\ UNCHANGED <<input, result, cursor, pending, log, attempt, thrown, hooks,
                 clock, sent, effects, crashes, calls,
                 tasks, peer, reply>>

\* sleep(timeout) elapses while the hook is still pending: the timeout arm wins
TimerFire ==
  /\ Live
  /\ \E h \in hooks :
       /\ h.state = "pending"
       /\ h.armed
       /\ hooks' = (hooks \ {h}) \cup {[h EXCEPT !.state = "expired", !.armed = FALSE]}
  /\ UNCHANGED <<input, status, result, pc, loc, cursor, pending, log, attempt, thrown,
                 clock, sent, effects, crashes, calls,
                 tasks, peer, reply>>

\* the value a return statement of the body returns
ResultOf(in, p, l) ==
  CASE p = "return.notApproved" ->
         [tag |-> "result", at |-> p, id |-> l["id"].seq, approved |-> FALSE,
          verified |-> l["validateMemberDetails"].verified,
          decision |-> l["approval"], error |-> "Verification not approved by MSR"]
    [] p = "return.approved" ->
         [tag |-> "result", at |-> p, id |-> l["id"].seq, approved |-> TRUE,
          verified |-> l["validateMemberDetails"].verified,
          decision |-> l["approval"], error |-> "none"]
    [] p = "return.policy" ->
         [tag |-> "result", at |-> p, id |-> l["id"].seq, approved |-> FALSE,
          verified |-> FALSE, decision |-> NoVal, error |-> "Policy violation"]
    [] p = "return.managerNotApproved" ->
         [tag |-> "result", at |-> p, id |-> l["id"].seq, approved |-> FALSE,
          verified |-> FALSE, decision |-> l["manager-review"],
          error |-> "Manager review not approved"]
    [] p = "return.legalDenied" ->
         [tag |-> "result", at |-> p, id |-> l["id"].seq, approved |-> FALSE,
          verified |-> FALSE, decision |-> l["legal-approval"],
          error |-> "Legal approval denied or timeout"]
    [] p = "return.complete" ->
         [tag |-> "result", at |-> p, id |-> l["id"].seq, approved |-> TRUE,
          verified |-> FALSE, decision |-> l["legal-approval"], error |-> "none"]
    [] p = "return.direct" ->
         [tag |-> "result", at |-> p, id |-> l["id"].seq,
          approved |-> l["direct.validateMemberDetails"].verified,
          verified |-> l["direct.validateMemberDetails"].verified,
          decision |-> NoVal, error |-> "none"]
    [] p = "return.org" ->
         [tag |-> "result", at |-> p, id |-> <<>>,
          approved |-> l["consolidateResults"].validated,
          verified |-> l["consolidateResults"].validated,
          decision |-> l["consolidateResults"], error |-> "none"]
    [] p = "return.verification" ->
         LET v == IF l["verifyOfferWithPlaywright"].tag = "verification"
                    THEN l["verifyOfferWithPlaywright"]
                  ELSE IF l["verifyOfferWithHttpProbe"].tag = "verification"
                    THEN l["verifyOfferWithHttpProbe"]
                  ELSE l["verifyOfferWithHttpProbe.fallback"]
         IN [tag |-> "result", at |-> p, id |-> <<>>, approved |-> v.verified,
             verified |-> v.verified, decision |-> NoVal,
             error |-> IF l["verifyOfferWithPlaywright"].tag = "rejected"
                         THEN "technical" ELSE "none"]
    [] OTHER ->
         [tag |-> "result", at |-> p, id |-> <<>>,
          approved |-> l["webhook"].approved,
          verified |-> FALSE, decision |-> l["webhook"], error |-> "none"]

\* the workflow function returns
Return ==
  /\ status = "running"
  /\ Op(input, pc).kind = "return"
  /\ status' = "completed"
  /\ result' = ResultOf(input, pc, loc)
  /\ pc' = "end"
  /\ UNCHANGED <<input, loc, cursor, pending, log, attempt, thrown, hooks,
                 clock, sent, effects, crashes, calls,
                 tasks, peer, reply>>

\* throw new FatalError(...) in the workflow body
Throw ==
  /\ status = "running"
  /\ Op(input, pc).kind = "throw"
  /\ status' = "failed"
  /\ result' = [tag |-> "error", error |-> pc]
  /\ pc' = "end"
  /\ UNCHANGED <<input, loc, cursor, pending, log, attempt, thrown, hooks,
                 clock, sent, effects, crashes, calls,
                 tasks, peer, reply>>

\* the hosting process dies and the run is resumed: everything volatile is lost,
\* the body is entered again from the top and replays the log
Crash ==
  /\ Live
  /\ crashes < MaxCrashes
  /\ crashes' = crashes + 1
  /\ pc' = "start"
  /\ loc' = EmptyLoc
  /\ cursor' = 0
  /\ pending' = NoVal
  /\ status' = "running"
  /\ UNCHANGED <<input, result, log, attempt, thrown, hooks, clock, sent, effects, calls,
                 tasks, peer, reply>>

(* ------------------------------------------------------------------ *)
(* hook.resume(token, payload) and the resume/approve routes           *)
(* ------------------------------------------------------------------ *)
RunId == "run-1"

\* the pending hook a token addresses, if any
Pending(token) == {h \in hooks : h.token = token /\ h.state = "pending" /\ h.hook # "webhook"}

\* defineHook(...).resume: a hook object when a pending hook of a live run has the
\* token, otherwise nothing
ResumeFinds(token) == Live /\ Pending(token) # {}

\* z.string().email(): the addresses, and a value that is none
Emails == {"approver@example.com", "first@example.com", "second@example.com"}
NotAnEmail == "not-an-email"

\* a hook defined without a schema
SchemaAcceptsAnything(payload) == TRUE

\* the schema of the hooks: approved is a boolean (the routes have made sure of that),
\* by is an e-mail address or absent
SchemaAccepts(payload) == payload.by \in Emails \cup {"none"}

\* resume validates the payload against the schema and throws when it does not fit
HooksAfterResume(token, payload) ==
  IF ResumeFinds(token) /\ SchemaAccepts(payload)
    THEN {IF h \in Pending(token)
             THEN [h EXCEPT !.state = "resolved", !.payload = payload, !.armed = FALSE] ELSE h
          : h \in hooks}
    ELSE hooks

Endpoints == {"teacher-verification/approve", "contract/approve", "contract/review",
              "contract/counterparty", "renewal/approve", "campaigns/approve"}

\* token = decodeURIComponent(rawToken) (raw on failure); token.replace(/['",]+$/, '').trim()
CleanDecoded(rawToken) == Trim(StripTrailing(TryDecode(rawToken), {SQUOTE, DQUOTE, COMMA}))

\* the first argument the route gives to hook.resume
ResumeToken(ep, rawToken) ==
  IF ep \in {"teacher-verification/approve", "contract/approve"}
    THEN CleanDecoded(rawToken)
    ELSE rawToken

\* the hook object whose resume the route calls
ResumeHook(ep, token) ==
  CASE ep = "teacher-verification/approve" -> "teacherVerificationApprovalHook"
    [] ep = "contract/approve" ->
         IF Includes(token, "clause-validation-approval")
           THEN "clauseValidationApprovalHook" ELSE "contractApprovalHook"
    [] ep = "contract/review" -> "contractManagerReviewHook"
    [] ep = "contract/counterparty" -> "counterpartyReviewHook"
    [] ep = "renewal/approve" -> "brokerApprovalHook"
    [] OTHER -> "campaignApprovalHook"

\* the payload the route gives to hook.resume: only the review route forwards edits
ResumePayload(ep, body) ==
  [tag |-> "decision", approved |-> body.approved, comment |-> "none", by |-> body.by,
   edits |-> (ep = "contract/review" /\ body.edits)]

\* the routes that test the result of resume: if (!result) -> 404
ChecksResult(ep) ==
  ep \in {"teacher-verification/approve", "contract/approve", "renewal/approve"}

\* the HTTP response for the result of resume
Response(ep, found) ==
  IF found THEN [status |-> 200, ok |-> TRUE, runId |-> RunId]
  ELSE IF ChecksResult(ep) THEN [status |-> 404, ok |-> FALSE, runId |-> "none"]
  ELSE [status |-> 200, ok |-> TRUE, runId |-> "undefined"]

Bodies(bys) == [approved : BOOLEAN, by : bys, edits : BOOLEAN]

\* the route the approval page of a token posts to
RouteOf(token) ==
  IF Includes(token, "teacher-verification") THEN "teacher-verification/approve"
  ELSE IF token[Len(token)] = "manager-review" THEN "contract/review"
  ELSE IF token[Len(token)] = "counterparty" THEN "contract/counterparty"
  ELSE "contract/approve"

\* A reviewer opens the link of an approval e-mail and submits a decision: the
\* request is handled in one piece (validation of the body, clean-up of the token,
\* hook.resume, response)
Deliver ==
  \E raw \in sent, body \in Bodies({"approver@example.com"}) :
    LET ep == RouteOf(raw) IN
    /\ hooks' = HooksAfterResume(ResumeToken(ep, raw), ResumePayload(ep, body))
    /\ hooks' # hooks
    /\ UNCHANGED <<input, status, result, pc, loc, cursor, pending, log, attempt, thrown,
                   clock, sent, effects, crashes, calls,
                 tasks, peer, reply>>

\* POST to webhook.url: the runtime resolves the webhook with the request
WebhookPost ==
  /\ Live
  /\ \E h \in hooks, a \in BOOLEAN :
       /\ h.hook = "webhook"
       /\ h.state = "pending"
       /\ h.token \in sent
       /\ hooks' = (hooks \ {h}) \cup
            {[h EXCEPT !.state = "resolved",
                       !.payload = [tag |-> "decision", approved |-> a, comment |-> "none",
                                    by |-> "none", edits |-> FALSE]]}
  /\ UNCHANGED <<input, status, result, pc, loc, cursor, pending, log, attempt, thrown,
                 clock, sent, effects, crashes, calls,
                 tasks, peer, reply>>

(* ------------------------------------------------------------------ *)
(* Requests with arbitrary tokens, and concurrent requests             *)
(* ------------------------------------------------------------------ *)
UnknownToken == <<"contract", COLON, "nobody", COLON, "0000000", COLON, "legal-approval">>

\* what the path from the e-mail to the request body can do to a token
Forms == {"exact", "encoded", "quote", "comma", "encoded-quote"}
Damaged(token, form) ==
  CASE form = "exact" -> token
    [] form = "encoded" -> encodeURIComponent(token)
    [] form = "quote" -> token \o <<DQUOTE>>
    [] form = "comma" -> token \o <<DQUOTE, COMMA>>
    [] OTHER -> encodeURIComponent(token) \o <<"%22">>

HookOfToken(token) ==
  IF \E h \in hooks : h.token = token
    THEN (CHOOSE h \in hooks : h.token = token).hook ELSE "none"

\* a route that would only look at the token
WellTypedToken(r) == r.typeofToken = "string"

\* typeof rawToken !== "string" || typeof approved !== "boolean" -> 400
WellTyped(r) == r.typeofToken = "string" /\ r.typeofApproved = "boolean"

\* const { token: rawToken, approved, ... } = await req.json(), for a body whose token
\* and approved have one of the given pairs of types
ReceiveOfTypes(c, eps, bases, forms, bys, types) ==
  /\ calls[c].stage = "idle"
  /\ \E ep \in eps, base \in bases, form \in forms, body \in Bodies(bys), ty \in types :
       /\ body.edits => ep = "contract/review"
       /\ calls' = [calls EXCEPT ![c] =
            [stage |-> "received", ep |-> ep, base |-> base, form |-> form,
             raw |-> Damaged(base, form), body |-> body,
             typeofToken |-> ty[1], typeofApproved |-> ty[2]]]
  /\ UNCHANGED <<input, status, result, pc, loc, cursor, pending, log, attempt, thrown, hooks,
                 clock, sent, effects, crashes,
                 tasks, peer, reply>>

\* a request whose token is a string and whose approved is a boolean
Receive(c, eps, bases, forms, bys) ==
  ReceiveOfTypes(c, eps, bases, forms, bys, {<<"string", "boolean">>})

\* new Response("Bad Request", { status: 400 })
BadRequest(r) ==
  [stage |-> "done", ep |-> r.ep, base |-> r.base, form |-> r.form,
   raw |-> r.raw, body |-> r.body, typeofToken |-> r.typeofToken,
   typeofApproved |-> r.typeofApproved, token |-> r.raw,
   hook |-> "none", found |-> FALSE, baseHook |-> HookOfToken(r.base),
   basePending |-> (Live /\ Pending(r.base) # {}),
   status |-> 400, ok |-> FALSE, runId |-> "none"]

\* the rest of the route: the check of the types, clean-up of the token, hook.resume,
\* response
Respond(c) ==
  /\ calls[c].stage = "received"
  /\ LET r == calls[c]
         token == ResumeToken(r.ep, r.raw)
         found == ResumeFinds(token)
         resp == IF found /\ ~SchemaAccepts(ResumePayload(r.ep, r.body))
                   THEN [status |-> 500, ok |-> FALSE, runId |-> "none"]  \* resume threw
                   ELSE Response(r.ep, found)
     IN
       IF ~WellTyped(r)
       THEN /\ hooks' = hooks
            /\ calls' = [calls EXCEPT ![c] = BadRequest(r)]
       ELSE
       /\ hooks' = HooksAfterResume(token, ResumePayload(r.ep, r.body))
       /\ calls' = [calls EXCEPT ![c] =
            [stage |-> "done", ep |-> r.ep, base |-> r.base, form |-> r.form,
             raw |-> r.raw, body |-> r.body, typeofToken |-> r.typeofToken,
             typeofApproved |-> r.typeofApproved, token |-> token,
             hook |-> ResumeHook(r.ep, token), found |-> found,
             baseHook |-> HookOfToken(r.base),
             basePending |-> (Live /\ Pending(r.base) # {}),
             status |-> resp.status, ok |-> resp.ok, runId |-> resp.runId]]
  /\ UNCHANGED <<input, status, result, pc, loc, cursor, pending, log, attempt, thrown,
                 clock, sent, effects, crashes,
                 tasks, peer, reply>>

\* the steps succeed
StepSucceed == StepInvokeWith({"ok"})

\* one request at a time, any route, any token, damaged in any way
ReceiveAny ==
  Receive("c1", Endpoints, {h.token : h \in hooks} \cup {UnknownToken}, Forms,
          {"approver@example.com"})

NextRoutes ==
  \/ StartRun \/ ComputeIds \/ StepSucceed \/ StepCommit
  \/ HookCreate \/ RaceEnter \/ AwaitEnter \/ GateSettle \/ TimerFire
  \/ Return \/ Throw \/ WebhookPost
  \/ ReceiveAny \/ Respond("c1")

SpecRoutes == Init /\ [][NextRoutes]_vars

\* two reviewers open the same approval e-mail
ReceiveLink ==
  \E c \in Callers, t \in sent :
    Receive(c, {RouteOf(t)}, {t}, {"exact"},
            {IF c = "c1" THEN "first@example.com" ELSE "second@example.com"})

NextRace ==
  \/ StartRun \/ ComputeIds \/ StepSucceed \/ StepCommit
  \/ HookCreate \/ RaceEnter \/ AwaitEnter \/ GateSettle \/ TimerFire
  \/ Return \/ Throw \/ WebhookPost
  \/ ReceiveLink \/ \E c \in Callers : Respond(c)

SpecRace == Init /\ [][NextRace]_vars

\* reviewers open the link of an approval e-mail; what they give as their address
\* may be no address
ReceiveTyped ==
  \E c \in Callers, t \in sent :
    Receive(c, {RouteOf(t)}, {t}, {"exact"}, {"approver@example.com", NotAnEmail})

SpecSchema ==
  /\ InitOf(TeacherInputs \cup ContractInputs)
  /\ [][\/ StartRun \/ ComputeIds \/ StepSucceed \/ StepCommit
        \/ HookCreate \/ RaceEnter \/ GateSettle \/ TimerFire \/ Return
        \/ ReceiveTyped \/ \E c \in Callers : Respond(c)]_vars

\* requests for the tokens of the hooks, on the route of each, with a token and an
\* approved of any type
ReceiveAnyType ==
  \E t \in {h.token : h \in hooks} :
    ReceiveOfTypes("c1", IF input.wf = "renewal" THEN {"renewal/approve"} ELSE {RouteOf(t)},
                   {t}, {"exact"}, {"approver@example.com"},
                   {"string", "undefined"} \X {"boolean", "string"})

SpecTyped ==
  /\ InitOf(TeacherInputs \cup ContractInputs \cup RenewalInputs)
  /\ [][\/ StartRun \/ ComputeIds \/ StepSucceed \/ StepCommit
        \/ HookCreate \/ RaceEnter \/ AwaitEnter \/ GateSettle \/ TimerFire \/ Return
        \/ ReceiveAnyType \/ Respond("c1")]_vars

\* the strings a request body can carry as its token
MaxTokenLen == 3
RawTokens ==
  UNION {[1..n -> {"tok", BLANK, DQUOTE, COMMA, "%22", "%2522"}] : n \in 0..MaxTokenLen}

\* a request to one of the two routes that normalize the token, with any string
ReceiveRaw ==
  /\ calls["c1"].stage = "idle"
  /\ \E ep \in {"teacher-verification/approve", "contract/approve"}, raw \in RawTokens :
       calls' = [calls EXCEPT !["c1"] =
            [stage |-> "received", ep |-> ep, base |-> raw, form |-> "exact", raw |-> raw,
             body |-> [approved |-> TRUE, by |-> "approver@example.com", edits |-> FALSE],
             typeofToken |-> "string", typeofApproved |-> "boolean"]]
  /\ UNCHANGED <<input, status, result, pc, loc, cursor, pending, log, attempt, thrown, hooks,
                 clock, sent, effects, crashes,
                 tasks, peer, reply>>

SpecTokens ==
  InitOf(TeacherInputs \cup ContractInputs) /\ [][ReceiveRaw \/ Respond("c1")]_vars

Next ==
  \/ StartRun \/ ComputeIds \/ StepReturn \/ StepInvoke \/ StepCommit
  \/ HookCreate \/ RaceEnter \/ AwaitEnter \/ GateSettle \/ TimerFire
  \/ Return \/ Throw \/ Crash \/ Deliver \/ WebhookPost

Spec == Init /\ [][Next]_vars

(* ------------------------------------------------------------------ *)
(* Promise.all over three step calls (organisation check)              *)
(* ------------------------------------------------------------------ *)
\* what can go wrong in a worker: fetch rejects, the lookup API answers 5xx, the
\* agent produces no tool result
WorkerFaults == {"none", "network", "http-5xx", "no-tool-result"}

\* the error a worker throws for a fault: `if (!res.ok) throw new FatalError(...)` in
\* the lookup tool, and the worker's catch wraps every other error in a FatalError
WorkerThrows(f) == "fatal"

\* the order of the calls in the array given to Promise.all
Dispatch == <<"legal", "sector", "trust">>

\* an array filled in the order in which the calls settled
PromiseAllByCompletion == [i \in 1..3 |-> log[i].val]

\* the array Promise.all fulfils with: the i-th element is the result of the i-th call
PromiseAll == [i \in 1..3 |-> tasks[Dispatch[i]].val]

\* a join that would continue as soon as one call is fulfilled
FulfilledAny == \E w \in Workers : tasks[w].state = "fulfilled"

\* Promise.all fulfils when every call is fulfilled
Fulfilled == \A w \in Workers : tasks[w].state = "fulfilled"

\* Promise.all rejects as soon as one call is rejected
Rejects == \E w \in Workers : tasks[w].state = "rejected"

\* the three calls are made, one after the other without an await in between, before
\* the body awaits anything
FanOut ==
  /\ status = "running"
  /\ Op(input, pc).kind = "fanout"
  /\ tasks' = [w \in Workers |-> [state |-> "running", attempt |-> 0, val |-> NoVal,
                                   fault |-> "none"]]
  /\ pc' = NextPc(input, pc, loc)
  /\ UNCHANGED <<input, status, result, loc, cursor, pending, log, attempt, thrown, hooks,
                 clock, sent, effects, crashes, calls, peer, reply>>

\* one attempt of one worker step; the calls settle in any order, and a call in
\* flight is not aborted when Promise.all has rejected
WorkerAttempt ==
  /\ \E w \in Workers :
       /\ tasks[w].state = "running"
       /\ \E o \in WorkerOutcomes(w), f \in WorkerFaults :
            IF o.kind = "ok"
              THEN /\ f = "none"
                   /\ tasks' = [tasks EXCEPT ![w] = [state |-> "fulfilled",
                                                     attempt |-> @.attempt + 1, val |-> o.val,
                                                     fault |-> f]]
                   /\ log' = Append(log, [site |-> w, val |-> o.val])
              ELSE /\ f # "none"
                   /\ o.kind = WorkerThrows(f)
                   /\ tasks' = [tasks EXCEPT ![w] =
                                  [state |-> IF Stops(o, @.attempt + 1, w)
                                               THEN "rejected" ELSE "running",
                                   attempt |-> @.attempt + 1, val |-> Rejected(o.kind),
                                   fault |-> f]]
                   /\ log' = log
  /\ UNCHANGED <<input, status, result, pc, loc, cursor, pending, attempt, thrown, hooks,
                 clock, sent, effects, crashes, calls, peer, reply>>

\* await Promise.all([...]) fulfils: the array is destructured into the three locals
Join ==
  /\ status = "running"
  /\ Op(input, pc).kind = "join"
  /\ Fulfilled
  /\ loc' = [loc EXCEPT !["legalResult"] = PromiseAll[1],
                        !["sectorResult"] = PromiseAll[2],
                        !["trustResult"] = PromiseAll[3]]
  /\ cursor' = Len(log)
  /\ pc' = NextPc(input, pc, loc')
  /\ UNCHANGED <<input, status, result, pending, log, attempt, thrown, hooks,
                 clock, sent, effects, crashes, calls, tasks, peer, reply>>

\* await Promise.all([...]) rejects: nothing in the body catches it, the workflow
\* function throws
JoinReject ==
  /\ status = "running"
  /\ Op(input, pc).kind = "join"
  /\ Rejects
  /\ status' = "failed"
  /\ result' = [tag |-> "error", error |-> pc]
  /\ pc' = "end"
  /\ UNCHANGED <<input, loc, cursor, pending, log, attempt, thrown, hooks,
                 clock, sent, effects, crashes, calls, tasks, peer, reply>>

NextFanOut ==
  \/ StartRun \/ FanOut \/ WorkerAttempt \/ Join \/ JoinReject
  \/ StepInvoke \/ StepCommit \/ Return

SpecFanOut == InitOf(OrgInputs) /\ [][NextFanOut]_vars

(* ------------------------------------------------------------------ *)
(* The routes that start a run                                         *)
(* ------------------------------------------------------------------ *)
\* the inputs the routes let through: the teacher routes answer 400 unless a member
\* id (or name and date of birth) is given
StartInputs ==
  {i \in TeacherInputs \cup DirectInputs : i.hasId} \cup OrgInputs \cup DealInputs

\* every route would hand the function to start(...)
UsesStartEverywhere(in) == TRUE

\* the routes that hand the workflow function to start(...); the other one calls
\* teacherVerification itself and awaits it
UsesStart(in) == in.wf # "teacher-direct"

\* Response.json({ ok: true, runId: run.runId, ... }) once start(...) has resolved
RunIdResponse == [code |-> 200, runId |-> RunId, result |-> NoVal]

\* Response.json({ ok: true, result, memberId }) once the function has returned, or
\* the 500 of the catch block once it has thrown
ResultResponse ==
  IF status = "completed" THEN [code |-> 200, runId |-> "none", result |-> result]
  ELSE [code |-> 500, runId |-> "none", result |-> NoVal]

\* the route sends its response
StartResponse ==
  /\ reply = NoVal
  /\ IF UsesStart(input)
       THEN /\ status # "pending"
            /\ reply' = RunIdResponse
       ELSE /\ status \in Terminal
            /\ reply' = ResultResponse
  /\ UNCHANGED <<input, status, result, pc, loc, cursor, pending, log, attempt, thrown,
                 hooks, clock, sent, effects, crashes, calls, tasks, peer>>

NextStart ==
  \/ StartRun \/ ComputeIds \/ StepInvoke \/ StepCommit
  \/ HookCreate \/ RaceEnter \/ GateSettle \/ TimerFire \/ Deliver \/ Return
  \/ FanOut \/ WorkerAttempt \/ Join \/ JoinReject
  \/ StartResponse

SpecStart == InitOf(StartInputs) /\ [][NextStart]_vars

(* ------------------------------------------------------------------ *)
(* A second run of the same workflow, started concurrently             *)
(* ------------------------------------------------------------------ *)
\* the gates a run with this input can get to
HookGates(in) ==
  IF in.wf = "teacher" THEN (IF in.hasId THEN {"approval"} ELSE {})
  ELSE {"clause-validation-approval", "legal-approval"}
         \cup (IF in.requesterRole = "requester" THEN {"manager-review"} ELSE {})

\* start(workflowFn, args) once more, for the same workflow
PeerStart ==
  /\ peer.stage = "none"
  /\ \E i \in TeacherInputs \cup ContractInputs :
       /\ i.wf = input.wf
       /\ peer' = [stage |-> "started", input |-> i]
  /\ UNCHANGED <<input, status, result, pc, loc, cursor, pending, log, attempt, thrown,
                 hooks, clock, sent, effects, crashes, calls, tasks, reply>>

\* the body of the second run derives its identifier: it reads the same clock
PeerComputeIds ==
  /\ peer.stage = "started"
  /\ \E t \in clock..MaxClock :
       /\ clock' = t
       /\ \E id \in NewIds(peer.input, t) :
            peer' = [stage |-> "ids", input |-> peer.input, id |-> id]
  /\ UNCHANGED <<input, status, result, pc, loc, cursor, pending, log, attempt, thrown,
                 hooks, sent, effects, crashes, calls, tasks, reply>>

\* the second run gets as far as hook.create({ token }) of one of its gates (its
\* steps before the gate succeed)
PeerHookCreate ==
  /\ peer.stage = "ids"
  /\ \E gate \in HookGates(peer.input) :
       \E t \in GateTokens(peer.input, gate,
                           [EmptyLoc EXCEPT !["id"] = [tag |-> "id", seq |-> peer.id]]) :
         peer' = [stage |-> "hook", input |-> peer.input, id |-> peer.id,
                  gate |-> gate, token |-> t]
  /\ UNCHANGED <<input, status, result, pc, loc, cursor, pending, log, attempt, thrown,
                 hooks, clock, sent, effects, crashes, calls, tasks, reply>>

\* a reviewer of the first run submits a decision: resume looks the token up among
\* the pending hooks of all runs; when both runs hold a pending hook with the token,
\* either may be the one that is found
DeliverAmongRuns ==
  \E raw \in sent, body \in Bodies({"approver@example.com"}) :
    LET ep == RouteOf(raw)
        token == ResumeToken(ep, raw)
    IN
    /\ \/ /\ ResumeFinds(token)
          /\ hooks' = HooksAfterResume(token, ResumePayload(ep, body))
          /\ peer' = peer
       \/ /\ peer.stage = "hook" /\ peer.token = token
          /\ peer' = [stage |-> "resolved", input |-> peer.input, id |-> peer.id,
                       gate |-> peer.gate, token |-> peer.token]
          /\ hooks' = hooks
    /\ UNCHANGED <<input, status, result, pc, loc, cursor, pending, log, attempt, thrown,
                   clock, sent, effects, crashes, calls, tasks, reply>>

NextTwoRuns ==
  \/ StartRun \/ ComputeIds \/ StepSucceed \/ StepCommit
  \/ HookCreate \/ RaceEnter \/ GateSettle \/ TimerFire \/ Return \/ Throw
  \/ PeerStart \/ PeerComputeIds \/ PeerHookCreate \/ DeliverAmongRuns

SpecTwoRuns == InitOf(TeacherInputs \cup ContractInputs) /\ [][NextTwoRuns]_vars

(* ------------------------------------------------------------------ *)
(* Properties                                                          *)
(* ------------------------------------------------------------------ *)
Last(t) == t[Len(t)]
Done == {c \in Callers : calls[c].stage = "done"}
RaceGates == {"approval", "clause-validation-approval", "manager-review", "legal-approval"}
TimeoutComment(gate) ==
  CASE gate = "approval" -> "Approval timeout"
    [] gate = "clause-validation-approval" -> "Clause validation approval timeout"
    [] gate = "manager-review" -> "Manager review timeout"
    [] OTHER -> "Legal approval timeout"

\* C1: a step whose result is in the checkpoint is never invoked again, whatever
\* crashes and resumes happen (its side effect is observed once); the replayed
\* body holds exactly the committed result of every step it has passed, and steps
\* run live only once the whole checkpoint has been replayed.
C1_ResumeExactlyOnce ==
  /\ \A s \in StepSites : effects[s] # 2
  /\ cursor <= Len(log)
  /\ \A i \in 1..cursor : loc[log[i].site] = log[i].val
  /\ pending # NoVal => cursor = Len(log)

\* a resumed run in the middle of the replay: it has been handed a committed
\* result and more committed results are ahead of it
C1_Witness ==
  /\ crashes > 0
  /\ cursor >= 1
  /\ cursor < Len(log)
  /\ effects[log[cursor].site] = 1

\* C2: of two concurrent resume calls for the token of one pending hook, exactly
\* one is answered ok:true with the run id and the other is answered not-found;
\* the workflow continues with the payload of the winner.
C2_ExactlyOneResumeWins ==
  \A c \in Done, d \in Done :
    (c # d /\ calls[c].base = calls[d].base /\ calls[c].found) =>
      /\ calls[c].ok /\ calls[c].runId = RunId
      /\ ~calls[d].found
      /\ calls[d].status = 404 /\ ~calls[d].ok
      /\ \A h \in hooks :
           (h.token = calls[c].token /\ loc[h.gate].tag = "decision") =>
             loc[h.gate].by = calls[c].body.by

\* C3: a hook that has left the pending state stays as it is, and a resume call
\* that arrives afterwards is answered not-found and changes neither the hooks,
\* the decision the body holds, nor the result of the run.
C3_LateResumeRejected ==
  [][ /\ \A h \in hooks : h.state # "pending" => h \in hooks'
      /\ \A c \in Callers :
           ( /\ calls[c].stage = "received"
             /\ calls'[c].stage = "done"
             /\ \E h \in hooks : h.token = calls[c].base /\ h.state # "pending" ) =>
             /\ calls'[c].status = 404
             /\ hooks' = hooks
             /\ loc' = loc
             /\ result' = result ]_vars

\* C4: every route answers a well-formed request whose token is the token of no
\* pending hook with 404, never with 200 ok:true and never with 500.
C4_NotFoundIs404 ==
  \A c \in Done :
    (calls[c].form = "exact" /\ ~calls[c].basePending) =>
      calls[c].status = 404 /\ ~calls[c].ok

\* C5: a run that waits on a hook or a webhook has a timer armed against it, so
\* the wait ends even if no resume is ever delivered.
C5_EveryWaitIsRaced ==
  \A h \in hooks :
    (status = "suspended" /\ h.gate = Op(input, pc).gate /\ h.state = "pending") => h.armed

\* C6: the decision a gate hands to the body is supplied by exactly one arm of
\* the race: approved=false with the timeout comment of the gate when the hook
\* expired, the payload of the resume when the hook was resolved; a run that
\* ends after a timeout is not approved.
C6_TimeoutOrPayload ==
  /\ \A g \in RaceGates :
       loc[g].tag = "decision" =>
         LET h == TheHook(g) IN
           /\ h.state \in {"expired", "resolved"}
           /\ h.state = "expired" =>
                /\ loc[g].approved = FALSE
                /\ loc[g].comment = TimeoutComment(g)
                /\ loc[g].by = "none"
           /\ h.state = "resolved" => loc[g] = h.payload /\ loc[g].comment # TimeoutComment(g)
  /\ (status = "completed" /\ \E h \in hooks : h.state = "expired") => result.approved = FALSE

\* the timeout arm has supplied the decision of a gate
C6_Witness ==
  \E g \in RaceGates :
    /\ loc[g].tag = "decision"
    /\ TheHook(g).state = "expired"
    /\ loc[g].approved = FALSE

\* C7: a run one of whose gates timed out ends completed with a returned result,
\* never failed.
C7_TimeoutIsNormalOutcome ==
  (status \in Terminal /\ \E h \in hooks : h.gate \in RaceGates /\ h.state = "expired") =>
    status = "completed" /\ result.tag = "result"

\* C8: a request carrying the token of a pending hook percent-encoded and/or
\* followed by quote or comma characters resumes with the token itself, and
\* resolves that hook, on every route.
C8_TokenNormalized ==
  \A c \in Done :
    (calls[c].basePending /\ calls[c].ep = RouteOf(calls[c].base)) =>
      calls[c].token = calls[c].base /\ calls[c].found

\* C9: a request carrying a token of a contract run is applied to the hook kind
\* that created the token.
C9_RoutedToCreatingHook ==
  \A c \in Done :
    ( /\ calls[c].form = "exact"
      /\ calls[c].ep = RouteOf(calls[c].base)
      /\ calls[c].baseHook \in {"clauseValidationApprovalHook", "contractApprovalHook",
                                "contractManagerReviewHook"} ) =>
      calls[c].hook = calls[c].baseHook

\* C10: a notification goes out only for a gate whose hook exists, and every
\* token notified for a gate is the token of the pending hook of that gate.
C10_NotifiedTokenIsHookToken ==
  /\ \A t \in sent : Last(t) \in RaceGates => HookAt(Last(t)) # {}
  /\ \A h \in hooks, t \in sent :
       (h.state = "pending" /\ Last(t) = h.gate) => t = h.token

\* C11: two runs started concurrently never hold pending hooks with the same
\* token, whatever their inputs are.
C11_TokensAreUnique ==
  \A h \in hooks :
    (h.state = "pending" /\ peer.stage = "hook") => h.token # peer.token


\* C12: whatever the order in which the three workers complete, the consolidation
\* step gets the legal worker's result as legalResult, the sector worker's as
\* sectorResult and the trust worker's as trustResult (dispatch order)
C12_DispatchOrder ==
  /\ loc["legalResult"] # NoVal =>
       /\ loc["legalResult"] = tasks["legal"].val /\ loc["legalResult"].tag = "legal"
       /\ loc["sectorResult"] = tasks["sector"].val /\ loc["sectorResult"].tag = "sector"
       /\ loc["trustResult"] = tasks["trust"].val /\ loc["trustResult"].tag = "trust"
  /\ loc["consolidateResults"] # NoVal =>
       \A i \in 1..3 : loc["consolidateResults"].sources[i].data = tasks[Dispatch[i]].val

\* the workers completed in reverse dispatch order and consolidation has run
C12_Witness ==
  /\ loc["consolidateResults"] # NoVal
  /\ log[1].site = "trust" /\ log[2].site = "sector" /\ log[3].site = "legal"

\* C13: consolidation never starts before all three workers have a final outcome,
\* and the workers are dispatched together: none is still to be started while
\* another is running or done
C13_JoinOnAll ==
  /\ (pc \in {"consolidateResults", "return.org"} \/ loc["consolidateResults"] # NoVal)
       => \A w \in Workers : tasks[w].state \in {"fulfilled", "rejected"}
  /\ \A w, v \in Workers : tasks[w].state = "idle" <=> tasks[v].state = "idle"

\* consolidation is being attempted, the sector worker having finished first
C13_Witness ==
  /\ pending # NoVal /\ pending.site = "consolidateResults"
  /\ log[1].site = "sector"

\* C14: when one worker failed for good and its siblings succeeded, the run does not
\* end without the consolidation step having been invoked
C14_ConsolidationAfterWorkerFailure ==
  (/\ status \in Terminal
   /\ \E w \in Workers : /\ tasks[w].state = "rejected"
                         /\ \A v \in Workers \ {w} : tasks[v].state = "fulfilled")
    => effects["consolidateResults"] >= 1


\* C15: a step whose function keeps throwing a retryable error is invoked exactly
\* maxRetries times; only the last of these attempts surfaces the failure (the run
\* fails, or the rejection is handed to a body that catches it), an earlier one
\* changes nothing the body can see; no step is invoked more often than that
C15_RetryBound ==
  [][ /\ (status = "running" /\ status' = "failed" /\ thrown' = "retryable")
         => attempt' = MaxRetries(pc)
      /\ (Len(log') > Len(log) /\ Last(log').val = Rejected("retryable"))
         => attempt + 1 = MaxRetries(pc)
      /\ (thrown' = "retryable" /\ attempt' = attempt + 1 /\ attempt' < MaxRetries(pc))
         => /\ status' = status /\ result' = result /\ pc' = pc /\ loc' = loc
            /\ log' = log /\ pending' = NoVal
      /\ attempt' > attempt => (thrown' # "none" /\ attempt' <= MaxRetries(pc))
    ]_vars

\* queryStateRegistry (maxRetries = 3) threw three times and the run failed
C15_Witness ==
  /\ status = "failed" /\ thrown = "retryable"
  /\ pc = "queryStateRegistry" /\ attempt = queryStateRegistryMaxRetries


\* C16: when an attempt of a step throws a FatalError the run fails with that
\* attempt, whatever is left of the retry budget, and the step is not attempted again
C16_FatalEndsRun ==
  [][ /\ thrown' = "fatal" => status' = "failed"
      /\ thrown = "fatal" => /\ attempt' = attempt /\ thrown' = thrown
                             /\ effects' = effects /\ log' = log /\ pending' = pending
    ]_vars

\* queryStateRegistry (maxRetries = 3) got a non-ok response on its first attempt
C16_Witness ==
  /\ status = "failed" /\ thrown = "fatal"
  /\ pc = "queryStateRegistry" /\ attempt = 1


\* the committed results that are rejections handed to the body
RejectionsLogged == {i \in 1..Len(log) : log[i].val.tag = "rejected"}

C18_StartReturnsRunId ==
  /\ reply # NoVal => reply.runId = RunId
  /\ (Live /\ reply = NoVal) => ENABLED StartResponse

\* C18 amended: the routes that call start(...) answer with the runId and can do so
\* as soon as the run exists, whatever the run is doing; the route that awaits
\* teacherVerification itself answers only when the function has finished, with the
\* result (or a 500) and without a runId
C18_StartReturnsRunIdUnlessAwaited ==
  IF input.wf # "teacher-direct"
    THEN /\ reply # NoVal => reply = [code |-> 200, runId |-> RunId, result |-> NoVal]
         /\ (status # "pending" /\ reply = NoVal) => ENABLED StartResponse
    ELSE /\ reply # NoVal =>
              /\ status \in Terminal
              /\ reply.runId = "none"
              /\ reply.code = (IF status = "completed" THEN 200 ELSE 500)
              /\ reply.result = (IF status = "completed" THEN result ELSE NoVal)
         /\ (~(status \in Terminal) /\ reply = NoVal) => ~ENABLED StartResponse

\* the runId was returned while the run waits for an approval
C18_Witness ==
  /\ reply # NoVal /\ reply.runId = RunId
  /\ status = "suspended"
  /\ \E h \in hooks : h.state = "pending"


\* C19: once the run is completed or failed nothing of it changes any more: status
\* and result stay, no step is invoked or committed (none of its results joins the
\* checkpoint), and no resume is accepted for any of its hooks
C19_TerminalIsFinal ==
  [][ /\ status \in Terminal => (status' = status /\ result' = result)
      /\ status \in Terminal =>
           (log' = log /\ pending' = pending /\ attempt' = attempt /\ effects' = effects)
      /\ status \in Terminal => (sent' = sent /\ hooks' = hooks)
      /\ status \in Terminal => (\A h \in hooks : ~ResumeFinds(h.token))
    ]_vars


\* the step calls of the teacher verification, in the order of the body
TeacherOrder == <<"copyMemberIdentifier", "queryStateRegistry", "validateMemberDetails",
                  "sendApprovalRequest">>

\* C20: outside the fan-out at most one step is in flight, and it is the call the
\* body stands at, made when every earlier result was in the checkpoint; so the
\* checkpoint of a teacher verification lists copyMemberIdentifier,
\* queryStateRegistry, validateMemberDetails, sendApprovalRequest in this order and
\* no step has produced a result before its predecessors were committed
C20_ProgramOrder ==
  /\ Cardinality((IF pending # NoVal THEN {pending.site} ELSE {})
                   \cup {w \in Workers : tasks[w].state = "running"}) <= 1
  /\ pending # NoVal => (pending.site = pc /\ cursor = Len(log))
  /\ input.wf = "teacher" =>
       /\ Len(log) <= Len(TeacherOrder)
       /\ \A i \in 1..Len(log) : log[i].site = TeacherOrder[i]
       /\ \A j \in 1..Len(TeacherOrder) :
            (effects[TeacherOrder[j]] # 0 \/ (pending # NoVal /\ pending.site = TeacherOrder[j]))
              => Len(log) >= j - 1

\* all four steps of a teacher verification are in the checkpoint
C20_Witness ==
  /\ input.wf = "teacher"
  /\ Len(log) = Len(TeacherOrder)
  /\ effects["sendApprovalRequest"] = 1


\* C21: a resume whose payload does not fit the schema of the hook (by is not an
\* e-mail address) changes nothing: the hook stays pending and the run waits; a
\* later resume with a fitting payload on the same token resolves the hook with its
\* payload, and only fitting payloads ever reach a hook or the workflow body
C21_InvalidPayloadRejected ==
  [][ /\ \A c \in Callers :
           (calls[c].stage = "received" /\ calls'[c].stage = "done") =>
             IF ~SchemaAccepts(ResumePayload(calls[c].ep, calls[c].body))
               THEN /\ hooks' = hooks /\ status' = status /\ loc' = loc
                    /\ calls'[c].found => calls'[c].status = 500
               ELSE calls'[c].found =>
                      \E h \in hooks' :
                        /\ h.token = calls'[c].token /\ h.state = "resolved"
                        /\ h.payload = ResumePayload(calls[c].ep, calls[c].body)
      /\ \A h \in hooks' : h.state = "resolved" => h.payload.by \in Emails
      /\ \A g \in Gates : loc'[g].tag = "decision" => loc'[g].by \in Emails \cup {"none"}
    ]_vars

\* a resume without an address of a pending hook was refused, a second one with an
\* address resolved the hook, and the workflow went on with the second payload
C21_Witness ==
  /\ calls["c1"].stage = "done" /\ calls["c1"].body.by = NotAnEmail /\ calls["c1"].found
  /\ calls["c2"].stage = "done" /\ calls["c2"].body.by \in Emails /\ calls["c2"].found
  /\ calls["c1"].token = calls["c2"].token
  /\ \E h \in hooks : /\ h.token = calls["c2"].token
                       /\ loc[h.gate] = ResumePayload(calls["c2"].ep, calls["c2"].body)


\* C22: a request whose token is not a string or whose approved is not a boolean is
\* answered with 400 and never gets to hook.resume: hooks and run stay as they are
C22_MistypedIs400 ==
  [][ \A c \in Callers :
        (/\ calls[c].stage = "received" /\ calls'[c].stage = "done"
         /\ (calls[c].typeofToken # "string" \/ calls[c].typeofApproved # "boolean"))
          => /\ calls'[c].status = 400
             /\ calls'[c].hook = "none" /\ ~calls'[c].found
             /\ hooks' = hooks
             /\ status' = status /\ result' = result /\ loc' = loc /\ log' = log
    ]_vars

\* a request with approved given as a string, for the token of a pending hook of a
\* waiting run, got 400 and the hook is still pending
C22_Witness ==
  /\ calls["c1"].stage = "done" /\ calls["c1"].status = 400
  /\ calls["c1"].typeofToken = "string" /\ calls["c1"].typeofApproved = "string"
  /\ calls["c1"].basePending
  /\ status = "suspended"
  /\ \E h \in hooks : h.token = calls["c1"].base /\ h.state = "pending"


\* C23: a resume that carries a token of one run (taken from its approval e-mail)
\* never resolves a hook of another run
C23_ResumeStaysInItsRun ==
  peer.stage = "resolved" => (peer.token \notin sent /\ \A h \in hooks : h.token # peer.token)


\* C24: a completed teacher verification reports approved exactly when its approval
\* hook was resolved by a resume with approved = true (not when the timeout fired,
\* not when the decision was negative); otherwise it reports approved = false with
\* the error 'Verification not approved by MSR'; verified is in both cases what the
\* validation step returned
C24_ApprovedOnlyByApproval ==
  (status = "completed" /\ input.wf = "teacher") =>
    LET h == TheHook("approval") IN
    /\ result.approved <=> (h.state = "resolved" /\ h.payload.approved)
    /\ ~result.approved => result.error = "Verification not approved by MSR"
    /\ result.approved => result.error = "none"
    /\ h.state = "resolved" => result.decision = h.payload
    /\ log[3].site = "validateMemberDetails"
    /\ result.verified = log[3].val.verified

\* the MSR approved a verification that the validation step had not verified
C24_Witness ==
  /\ status = "completed" /\ input.wf = "teacher"
  /\ result.approved /\ ~result.verified
  /\ TheHook("approval").payload.approved


\* C25: a worker step that fails with a transient error (network error, HTTP 5xx of
\* the lookup API) is given up only after the three attempts of its maxRetries
C25_TransientWorkerErrorRetried ==
  \A w \in Workers :
    (tasks[w].state = "rejected" /\ tasks[w].fault \in {"network", "http-5xx"})
      => tasks[w].attempt = MaxRetries(w)


C27_GatesBeforeCounterparty ==
  input.wf = "contract" =>
    LET Passed(g) == \E h \in hooks : h.gate = g /\ h.state = "resolved" /\ h.payload.approved
        Refused(g) == \E h \in hooks :
                        /\ h.gate = g
                        /\ \/ h.state = "expired"
                           \/ h.state = "resolved" /\ ~h.payload.approved
        final == {"sendApprovalRequest.counterparty", "archiveContract"}
        Executed == \/ pc \in final \cup {"return.complete"}
                    \/ pending # NoVal /\ pending.site \in final
                    \/ \E s \in final : effects[s] >= 1
                    \/ \E i \in 1..Len(log) : log[i].site \in final
    IN /\ Executed => Passed("legal-approval")
       /\ (HookAt("legal-approval") # {} /\ input.requesterRole = "requester")
            => Passed("manager-review")
       /\ (Refused("legal-approval") \/ Refused("manager-review")) => ~Executed

\* a requester's contract was archived
C27_Witness ==
  /\ input.wf = "contract"
  /\ input.requesterRole = "requester"
  /\ effects["archiveContract"] >= 1
  /\ \E h \in hooks : h.gate = "manager-review" /\ h.state = "resolved"


\* C28: a resume that arrives after the hook was created and before the race is
\* awaited, while the notification step is still running or being retried, is
\* kept: the hook stays resolved with that payload, the body does not suspend at
\* the race, and the decision it continues with is the payload, not the timeout
C28_EarlyResumeKept ==
  [][ /\ \A h \in hooks : h.state = "resolved" => h \in hooks'
      /\ (status = "running" /\ Op(input, pc).kind = "race"
            /\ TheHook(Op(input, pc).gate).state = "resolved")
           => (/\ status' # "suspended"
               /\ pc' \notin {pc, "start"} =>
                    loc'[Op(input, pc).gate] = TheHook(Op(input, pc).gate).payload)
      /\ \A h \in hooks' :
           (h.state = "resolved" /\ loc'[h.gate].tag = "decision") => loc'[h.gate] = h.payload
    ]_vars

\* the hook was resolved while the notification step of its gate was being retried
C28_Witness ==
  /\ status = "running"
  /\ Op(input, pc).kind = "step"
  /\ IsNotification(input, pc)
  /\ thrown = "retryable"
  /\ \E h \in hooks : /\ h.state = "resolved"
                       /\ h.token = SentToken(pc, loc)
                       /\ loc[h.gate].tag = "hook"


\* C29: the token the approve routes hand to hook.resume never ends in a quote, a
\* comma or a blank, and normalizing it once more leaves it unchanged
C29_NormalizedIsClean ==
  (calls["c1"].stage = "done" /\ calls["c1"].status # 400) =>
    LET token == calls["c1"].token IN
      /\ token # <<>> => token[Len(token)] \notin {SQUOTE, DQUOTE, COMMA, BLANK}
      /\ CleanDecoded(token) = token


\* C30: when checkPolicyCompliance answers that the role may not draft, the
\* contract run executes no other step, creates no hook and sends no notification,
\* and what it returns is the error 'Policy violation'
C30_PolicyViolationStops ==
  (/\ input.wf = "contract"
   /\ Len(log) >= 1
   /\ log[1].site = "checkPolicyCompliance"
   /\ log[1].val.tag = "policy"
   /\ ~log[1].val.allowed)
  => /\ Len(log) = 1
     /\ pending = NoVal
     /\ \A s \in StepSites \ {"checkPolicyCompliance"} : effects[s] = 0
     /\ hooks = {}
     /\ sent = {}
     /\ pc \in {"start", "checkPolicyCompliance", "return.policy", "end"}
     /\ status # "failed"
     /\ status = "completed" =>
          (result.tag = "result" /\ result.error = "Policy violation")

\* the run returned the policy violation
C30_Witness ==
  /\ input.wf = "contract"
  /\ status = "completed"
  /\ result.tag = "result"
  /\ result.error = "Policy violation"
  /\ Len(log) = 1

====
